---------------------------- MODULE Spec2Model ----------------------------
(***************************************************************************)
(* OpsGuard API: request handlers over the document store.                 *)
(*                                                                         *)
(* A handler processes one request end to end.  It yields control only at  *)
(* a store call (find_one, insert_one, update_one, delete_one), so one     *)
(* step of the model is one store call, executed atomically by the store,  *)
(* together with the handler's local code around it.  Handlers interleave  *)
(* between their store calls.  A handler keeps its response until it takes *)
(* its next request.                                                       *)
(***************************************************************************)
EXTENDS Integers, Sequences, FiniteSets, TLC

VARIABLES users, availability, shifts, schedules, nextId, now, nreq, pc, req, loc,
          resp

vars ==
  <<users, availability, shifts, schedules, nextId, now, nreq, pc, req, loc, resp>>

(***************************************************************************)
(* Bounds of the model.                                                    *)
(***************************************************************************)
MaxShiftReqs == 2     \* requests started in one behaviour of SpecShifts
MaxAvailReqs == 2     \* requests started in one behaviour of SpecAvail
MaxUserReqs == 2      \* requests started in one behaviour of SpecUsers
MaxSchedReqs == 2     \* requests started in one behaviour of SpecSched
MaxAllReqs == 1       \* requests started in one behaviour of SpecAll
MaxClock == 1         \* largest value datetime.utcnow() returns

Handlers == {"h1", "h2"}

(***************************************************************************)
(* Values.                                                                 *)
(***************************************************************************)
None == "None"
NoDoc == [none |-> TRUE]          \* what find_one returns when nothing matches
NoResp == [status |-> 0]
NoReq == [op |-> "none"]
NoLoc == [user |-> NoDoc]

\* str(ObjectId) and ObjectId(str): an ObjectId is a number, its text form a
\* tagged pair; a text that is no 24-digit hex string carries another tag.
Str(oid) == <<"oid", oid>>
BadIdText == <<"txt", 0>>
ObjectId_is_valid(s) == s[1] = "oid"
ObjectId(s) == s[2]

\* datetime.isoformat()
isoformat(t) == <<"iso", t>>

\* str.lower(), character by character
UpperCase == "ABCDEFGHIJKLMNOPQRSTUVWXYZ"
LowerCase == "abcdefghijklmnopqrstuvwxyz"
lower_char(c) ==
  IF \E i \in 1..Len(UpperCase) : SubSeq(UpperCase, i, i) = c
    THEN LET i == CHOOSE j \in 1..Len(UpperCase) : SubSeq(UpperCase, j, j) = c
         IN SubSeq(LowerCase, i, i)
    ELSE c
RECURSIVE lower(_)
lower(s) == IF Len(s) = 0 THEN s ELSE lower_char(Head(s)) \o lower(Tail(s))

\* str.strip(): leading and trailing whitespace is dropped
Whitespace == {" ", "\t"}
RECURSIVE lstrip(_)
lstrip(s) == IF Len(s) > 0 /\ Head(s) \in Whitespace THEN lstrip(Tail(s)) ELSE s
RECURSIVE rstrip(_)
rstrip(s) ==
  IF Len(s) > 0 /\ SubSeq(s, Len(s), Len(s)) \in Whitespace
    THEN rstrip(SubSeq(s, 1, Len(s) - 1))
    ELSE s
strip(s) == rstrip(lstrip(s))

\* "@" in s
contains_at(s) == \E i \in 1..Len(s) : SubSeq(s, i, i) = "@"

\* passlib's hash and verify, as opaque capabilities
hash_password(password) == <<"bcrypt", password>>
verify_password(plain, hashed) == hashed = <<"bcrypt", plain>>

\* Mongo's $set: the named fields are written, every other field is kept
SetFields(doc, upd) ==
  [f \in (DOMAIN doc) \cup (DOMAIN upd) |->
     IF f \in DOMAIN upd THEN upd[f] ELSE doc[f]]

\* the documents of a collection that match a predicate on one field
Matching(coll, field, value) == {d \in coll : d[field] = value}

(***************************************************************************)
(* The users of the store at the start: register only creates guards, so   *)
(* the admin account is there from the start.                              *)
(***************************************************************************)
Ann == [_id |-> 1, name |-> "Ann", email |-> "ann@x.com",
        password_hash |-> hash_password("pwA"), role |-> "admin", created_at |-> 0]
Bob == [_id |-> 2, name |-> "Bob", email |-> "bob@x.com",
        password_hash |-> hash_password("pwB"), role |-> "guard", created_at |-> 0]
Cy == [_id |-> 3, name |-> "Cy", email |-> "cy@x.com",
       password_hash |-> hash_password("pwC"), role |-> "guard", created_at |-> 0]

SeedUsers == {Ann, Bob, Cy}

(***************************************************************************)
(* Tokens and authentication (auth.py, deps.py).                           *)
(***************************************************************************)
Claims(i) == [sub |-> Str(i), exp |-> 1]
GoodTokens == {[kind |-> "signed", claims |-> Claims(i)] : i \in {u._id : u \in SeedUsers}}
BadTokens ==
  { [kind |-> "malformed", claims |-> NoDoc],
    [kind |-> "expired", claims |-> Claims(Bob._id)],
    [kind |-> "badsig", claims |-> Claims(Bob._id)],
    [kind |-> "signed", claims |-> [exp |-> 1]],           \* no "sub" claim
    [kind |-> "signed", claims |-> Claims(9)] }      \* subject not in the store
Tokens == GoodTokens \cup BadTokens

\* jwt.decode raises JWTError on a malformed, expired or wrongly signed token
decode_token(token) ==
  IF token.kind \in {"malformed", "expired", "badsig"} THEN NoDoc ELSE token.claims

HTTPException(code, text) == [status |-> code, detail |-> text]
Ok(content) == [status |-> 200, body |-> content]

Finish(h, r) ==
  /\ resp' = [resp EXCEPT ![h] = r]
  /\ pc' = [pc EXCEPT ![h] = "done"]

\* a free handler takes request r
Accept(h, r, max) ==
  /\ pc[h] \in {"idle", "done"}
  /\ nreq < max
  /\ nreq' = nreq + 1
  /\ req' = [req EXCEPT ![h] = r]

\* get_current_user, the dependency a request starts with: decode the token,
\* then look the subject up
get_current_user(h, r, max) ==
  /\ Accept(h, r, max)
  /\ LET payload == decode_token(r.token) IN
     IF payload = NoDoc \/ "sub" \notin DOMAIN payload
       THEN /\ Finish(h, HTTPException(401, "Invalid token"))
            /\ loc' = [loc EXCEPT ![h] = NoLoc]
       ELSE LET found == Matching(users, "_id", ObjectId(payload.sub)) IN
            IF found = {}
              THEN /\ Finish(h, HTTPException(401, "User not found"))
                   /\ loc' = [loc EXCEPT ![h] = NoLoc]
              ELSE /\ \E user \in found :
                        loc' = [loc EXCEPT ![h] = [user |-> user]]
                   /\ pc' = [pc EXCEPT ![h] = "body"]
                   /\ resp' = [resp EXCEPT ![h] = NoResp]
  /\ UNCHANGED <<users, availability, shifts, schedules, nextId, now>>

\* get_admin_user, evaluated on the user get_current_user returned
is_admin_user_any_role(user) == user.role \in {"admin", "guard"}
is_admin_user(user) == user.role = "admin"

(***************************************************************************)
(* Shifts (routers/shifts.py).                                             *)
(***************************************************************************)
ShiftInputs ==
  { [date |-> "2025-11-27", venue |-> "Club", start_time |-> "9:00 PM",
     end_time |-> "5:00 AM", total_hours |-> 8, notes |-> "door"],
    [date |-> "2025-11-28", venue |-> "Mall", start_time |-> "8:00 AM",
     end_time |-> "4:00 PM", total_hours |-> 8, notes |-> None] }

\* the ids of the first shift stored and of the next document, and no id
ShiftIdTexts ==
  {Str(Cardinality(SeedUsers) + 1), Str(Cardinality(SeedUsers) + 4), BadIdText}

Get(doc, field, default) == IF field \in DOMAIN doc THEN doc[field] ELSE default

serialize_shift(doc) ==
  IF doc = NoDoc THEN <<>>
  ELSE [id |-> Str(doc._id),
        user_id |-> doc.user_id,
        date |-> doc.date,
        venue |-> doc.venue,
        start_time |-> doc.start_time,
        end_time |-> doc.end_time,
        total_hours |-> doc.total_hours,
        notes |-> doc.notes,
        paid |-> Get(doc, "paid", FALSE),
        created_at |-> isoformat(doc.created_at),
        guard_name |-> Get(doc, "guard_name", None)]

\* the document create_shift inserts
new_shift_doc_paid(id, user, shift, t) ==
  [_id |-> id, user_id |-> Str(user._id), date |-> shift.date, venue |-> shift.venue,
   start_time |-> shift.start_time, end_time |-> shift.end_time,
   total_hours |-> shift.total_hours, notes |-> shift.notes,
   paid |-> (shift.notes = None), created_at |-> t]
new_shift_doc(id, user, shift, t) ==
  [_id |-> id,
   user_id |-> Str(user._id),
   date |-> shift.date,
   venue |-> shift.venue,
   start_time |-> shift.start_time,
   end_time |-> shift.end_time,
   total_hours |-> shift.total_hours,
   notes |-> shift.notes,
   paid |-> FALSE,
   created_at |-> t]

create_shift(h) ==
  /\ pc[h] = "body"
  /\ req[h].op = "create_shift"
  /\ \E t \in now..MaxClock :
       LET doc == new_shift_doc(nextId, loc[h].user, req[h].shift, t) IN
       /\ now' = t
       /\ shifts' = shifts \cup {doc}
       /\ nextId' = nextId + 1
       /\ Finish(h, Ok(serialize_shift(doc)))
  /\ UNCHANGED <<users, availability, schedules, nreq, req, loc>>

\* the $set of set_shift_paid
paid_update_nulls_notes(paid, t) == [paid |-> paid, updated_at |-> t, notes |-> None]
paid_update(paid, t) == [paid |-> paid, updated_at |-> t]

\* db.shifts.update_one({"_id": id}, {"$set": upd}): the collection afterwards
update_one_upserting(coll, id, upd) ==
  IF Matching(coll, "_id", id) = {}
    THEN coll \cup {SetFields([_id |-> id], upd)}
    ELSE (coll \ Matching(coll, "_id", id))
           \cup {SetFields(d, upd) : d \in Matching(coll, "_id", id)}
update_one_by_id(coll, id, upd) ==
  (coll \ Matching(coll, "_id", id))
    \cup {SetFields(d, upd) : d \in Matching(coll, "_id", id)}

\* set_shift_paid up to its update_one
set_shift_paid(h) ==
  /\ pc[h] = "body"
  /\ req[h].op = "set_shift_paid"
  /\ IF ~is_admin_user(loc[h].user)
       THEN /\ Finish(h, HTTPException(403, "Admins only"))
            /\ UNCHANGED <<shifts, now>>
     ELSE IF ~ObjectId_is_valid(req[h].shift_id)
       THEN /\ Finish(h, HTTPException(400, "Invalid shift id"))
            /\ UNCHANGED <<shifts, now>>
     ELSE \E t \in now..MaxClock :
            LET id == ObjectId(req[h].shift_id)
                matched_count == Cardinality(Matching(shifts, "_id", id)) IN
            /\ now' = t
            /\ shifts' = update_one_by_id(shifts, id, paid_update(req[h].paid, t))
            /\ IF matched_count = 0
                 THEN Finish(h, HTTPException(404, "Shift not found"))
                 ELSE /\ pc' = [pc EXCEPT ![h] = "fetch"]
                      /\ UNCHANGED resp
  /\ UNCHANGED <<users, availability, nextId, schedules, nreq, req, loc>>

\* set_shift_paid's find_one after the update, and its response
set_shift_paid_fetch(h) ==
  /\ pc[h] = "fetch"
  /\ req[h].op = "set_shift_paid"
  /\ LET found == Matching(shifts, "_id", ObjectId(req[h].shift_id)) IN
     IF found = {}
       THEN Finish(h, Ok(serialize_shift(NoDoc)))
       ELSE \E doc \in found : Finish(h, Ok(serialize_shift(doc)))
  /\ UNCHANGED <<users, availability, shifts, nextId, now, schedules, nreq, req, loc>>

\* delete_shift's owner-or-admin decision
may_delete_shift_admin_only(user, doc) == Get(user, "role", None) = "admin"
may_delete_shift(user, doc) ==
  LET is_admin == Get(user, "is_admin", FALSE) \/ Get(user, "admin", FALSE)
                    \/ Get(user, "role", None) = "admin" IN
  is_admin \/ doc.user_id = Str(user._id)

\* delete_shift up to its find_one and the decision on the document found
delete_shift(h) ==
  /\ pc[h] = "body"
  /\ req[h].op = "delete_shift"
  /\ IF ~ObjectId_is_valid(req[h].shift_id)
       THEN /\ Finish(h, HTTPException(400, "Invalid shift id"))
            /\ UNCHANGED loc
     ELSE LET found == Matching(shifts, "_id", ObjectId(req[h].shift_id)) IN
          IF found = {}
            THEN /\ Finish(h, HTTPException(404, "Shift not found"))
                 /\ UNCHANGED loc
          ELSE \E doc \in found :
                 IF ~may_delete_shift(loc[h].user, doc)
                   THEN /\ Finish(h, HTTPException(403, "Not allowed"))
                        /\ UNCHANGED loc
                   ELSE /\ loc' = [loc EXCEPT ![h] = [user |-> loc[h].user, doc |-> doc]]
                        /\ pc' = [pc EXCEPT ![h] = "delete"]
                        /\ UNCHANGED resp
  /\ UNCHANGED <<users, availability, shifts, nextId, now, schedules, nreq, req>>

\* delete_shift's delete_one, and its response
delete_shift_delete(h) ==
  /\ pc[h] = "delete"
  /\ req[h].op = "delete_shift"
  /\ shifts' = shifts \ Matching(shifts, "_id", ObjectId(req[h].shift_id))
  /\ Finish(h, Ok([status |-> "deleted", id |-> req[h].shift_id]))
  /\ UNCHANGED <<users, availability, nextId, now, schedules, nreq, req, loc>>

(***************************************************************************)
(* Texts: a date or month text is the sequence of its characters.          *)
(***************************************************************************)
DigitChars == <<"0", "1", "2", "3", "4", "5", "6", "7", "8", "9">>
IsDigit(c) == \E i \in DOMAIN DigitChars : DigitChars[i] = c
DigitVal(c) == (CHOOSE i \in DOMAIN DigitChars : DigitChars[i] = c) - 1
AllDigits(t) == \A i \in DOMAIN t : IsDigit(t[i])

RECURSIVE Num(_)
Num(t) ==
  IF t = <<>> THEN 0
  ELSE Num(SubSeq(t, 1, Len(t) - 1)) * 10 + DigitVal(t[Len(t)])

IsLeap(y) == (y % 4 = 0 /\ y % 100 # 0) \/ y % 400 = 0
DaysIn(y, m) ==
  IF m = 2 THEN (IF IsLeap(y) THEN 29 ELSE 28)
  ELSE IF m \in {4, 6, 9, 11} THEN 30 ELSE 31

\* datetime.strptime(t, "%Y-%m-%d") returns (TRUE) or raises ValueError (FALSE):
\* %Y is four digits, %m and %d one or two digits, the whole text is consumed
\* and the day exists in the month
strptime_Y_m_d(t) ==
  \E i, j \in DOMAIN t :
    /\ i < j /\ t[i] = "-" /\ t[j] = "-"
    /\ LET y == SubSeq(t, 1, i - 1)
           m == SubSeq(t, i + 1, j - 1)
           d == SubSeq(t, j + 1, Len(t)) IN
       /\ Len(y) = 4 /\ AllDigits(y) /\ Num(y) >= 1
       /\ Len(m) \in {1, 2} /\ AllDigits(m) /\ Num(m) \in 1..12
       /\ Len(d) \in {1, 2} /\ AllDigits(d) /\ Num(d) >= 1
       /\ Num(d) <= DaysIn(Num(y), Num(m))

\* the Mongo filter {"$regex": "^" + prefix} on a text field
regex_starts_with(t, prefix) ==
  Len(prefix) <= Len(t) /\ SubSeq(t, 1, Len(prefix)) = prefix

\* the order of texts that sort("date", 1) uses: code point by code point
CodePoint(c) ==
  IF c = " " THEN 32
  ELSE IF c = "-" THEN 45
  ELSE IF c = "." THEN 46
  ELSE IF c = "/" THEN 47
  ELSE IF c = "@" THEN 64
  ELSE IF IsDigit(c) THEN 48 + DigitVal(c)
  ELSE IF \E i \in 1..Len(UpperCase) : SubSeq(UpperCase, i, i) = c
    THEN 64 + (CHOOSE i \in 1..Len(UpperCase) : SubSeq(UpperCase, i, i) = c)
  ELSE 96 + (CHOOSE i \in 1..Len(LowerCase) : SubSeq(LowerCase, i, i) = c)
RECURSIVE TextLeq(_, _)
TextLeq(a, b) ==
  IF Len(a) = 0 THEN TRUE
  ELSE IF Len(b) = 0 THEN FALSE
  ELSE IF CodePoint(Head(a)) # CodePoint(Head(b))
    THEN CodePoint(Head(a)) < CodePoint(Head(b))
  ELSE TextLeq(Tail(a), Tail(b))

\* find(...).sort("date", 1): the orders in which the cursor may yield docs
sort_by_date(docs) ==
  {s \in [1..Cardinality(docs) -> docs] :
     /\ \A i, j \in DOMAIN s : i # j => s[i] # s[j]
     /\ \A i, j \in DOMAIN s : i < j => TextLeq(s[i].date, s[j].date)}

Nov27 == <<"2", "0", "2", "5", "-", "1", "1", "-", "2", "7">>
Dec01 == <<"2", "0", "2", "5", "-", "1", "2", "-", "0", "1">>
Nov31 == <<"2", "0", "2", "5", "-", "1", "1", "-", "3", "1">>   \* no such day
MonthNov == <<"2", "0", "2", "5", "-", "1", "1">>
Month13 == <<"2", "0", "2", "5", "-", "1", "3">>                \* no such month
MonthOneDigit == <<"2", "0", "2", "5", "-", "1">>                \* January, unpadded

(***************************************************************************)
(* admin_list_shifts (routers/shifts.py).                                  *)
(***************************************************************************)
\* find({}).sort("date", -1): the orders in which the cursor may yield docs
sort_by_date_desc(docs) ==
  {s \in [1..Cardinality(docs) -> docs] :
     /\ \A i, j \in DOMAIN s : i # j => s[i] # s[j]
     /\ \A i, j \in DOMAIN s : i < j => TextLeq(s[j].date, s[i].date)}

\* admin_list_shifts up to its find
admin_list_shifts(h) ==
  /\ pc[h] = "body"
  /\ req[h].op = "admin_list_shifts"
  /\ IF ~is_admin_user(loc[h].user)
       THEN /\ Finish(h, HTTPException(403, "Admins only"))
            /\ UNCHANGED loc
       ELSE \E cursor \in sort_by_date_desc(shifts) :
              IF Len(cursor) = 0
                THEN /\ Finish(h, Ok([items |-> <<>>]))
                     /\ UNCHANGED loc
                ELSE /\ loc' = [loc EXCEPT ![h] = [user |-> loc[h].user,
                                                   cursor |-> cursor, items |-> <<>>]]
                     /\ pc' = [pc EXCEPT ![h] = "enrich"]
                     /\ UNCHANGED resp
  /\ UNCHANGED <<users, availability, shifts, schedules, nextId, now, nreq, req>>

\* one round of admin_list_shifts's loop: the find_one of the shift's user,
\* and the response after the last shift
admin_list_shifts_enrich(h) ==
  /\ pc[h] = "enrich"
  /\ req[h].op = "admin_list_shifts"
  /\ LET doc == Head(loc[h].cursor)
         found == IF ObjectId_is_valid(doc.user_id)
                    THEN Matching(users, "_id", ObjectId(doc.user_id))
                    ELSE {} IN
     \E guard_doc \in (IF found = {} THEN {NoDoc} ELSE found) :
       LET guard_name == IF guard_doc = NoDoc THEN None ELSE guard_doc.name
           items == Append(loc[h].items,
                           serialize_shift(SetFields(doc, [guard_name |-> guard_name])))
       IN IF Len(loc[h].cursor) = 1
            THEN /\ Finish(h, Ok([items |-> items]))
                 /\ UNCHANGED loc
            ELSE /\ loc' = [loc EXCEPT ![h] = [user |-> loc[h].user,
                                               cursor |-> Tail(loc[h].cursor),
                                               items |-> items]]
                 /\ UNCHANGED <<pc, resp>>
  /\ UNCHANGED <<users, availability, shifts, schedules, nextId, now, nreq, req>>

\* .skip(skip).limit(page_size) of a cursor
skip_limit(cursor, skip, page_size) ==
  SubSeq(cursor, skip + 1,
         IF skip + page_size < Len(cursor) THEN skip + page_size ELSE Len(cursor))

get_my_shifts(h) ==
  /\ pc[h] = "body"
  /\ req[h].op = "get_my_shifts"
  /\ LET skip == (req[h].page - 1) * req[h].page_size IN
     \E found \in sort_by_date_desc(Matching(shifts, "user_id", Str(loc[h].user._id))) :
       LET cursor == skip_limit(found, skip, req[h].page_size) IN
       Finish(h, Ok([items |-> [i \in DOMAIN cursor |-> serialize_shift(cursor[i])],
                     page |-> req[h].page,
                     page_size |-> req[h].page_size]))
  /\ UNCHANGED <<users, availability, shifts, schedules, nextId, now, nreq, req, loc>>

(***************************************************************************)
(* Identity resolution of a guard reference, as create_schedule and        *)
(* admin_get_for_guard do it inline: by name, then by e-mail.              *)
(***************************************************************************)
\* find_one({"name": guard}): the users it may return
resolve_by_name_any(coll, guard) == coll
resolve_by_name(coll, guard) == Matching(coll, "name", guard)

\* find_one({"email": guard.lower()}): the users it may return
resolve_by_email_exact_case(coll, guard) == Matching(coll, "email", guard)
resolve_by_email(coll, guard) == Matching(coll, "email", lower(guard))

(***************************************************************************)
(* Availability (routers/availability.py).                                 *)
(***************************************************************************)
serialize_availability(doc, user) ==
  [id |-> Str(doc._id),
   user_id |-> IF user = NoDoc THEN doc.user_id ELSE Str(user._id),
   user_name |-> IF user = NoDoc THEN Get(doc, "user_name", None) ELSE user.name,
   user_email |-> IF user = NoDoc THEN Get(doc, "user_email", None) ELSE user.email,
   date |-> doc.date,
   is_available |-> Get(doc, "is_available", FALSE),
   start_time |-> Get(doc, "start_time", None),
   end_time |-> Get(doc, "end_time", None),
   notes |-> Get(doc, "notes", None),
   created_at |-> Get(doc, "created_at", None),
   updated_at |-> Get(doc, "updated_at", None)]

\* the filter and the update document upsert_my_availability builds
upsert_query(user, payload) == [user_id |-> Str(user._id), date |-> payload.date]

upsert_update_doc_keeps_nulls(user, payload, t_updated, t_created) ==
  [set |-> [f \in {g \in {"start_time", "end_time", "notes"} : payload[g] # None}
                   \cup {"user_id", "user_email", "user_name", "date",
                         "is_available", "updated_at"} |->
              CASE f = "user_id" -> Str(user._id)
                [] f = "user_email" -> user.email
                [] f = "user_name" -> user.name
                [] f = "updated_at" -> t_updated
                [] OTHER -> payload[f]],
   setOnInsert |-> [created_at |-> t_created]]
upsert_update_doc_sets_created(user, payload, t_updated, t_created) ==
  [set |-> [user_id |-> Str(user._id), user_email |-> user.email,
            user_name |-> user.name, date |-> payload.date,
            is_available |-> payload.is_available,
            start_time |-> payload.start_time, end_time |-> payload.end_time,
            notes |-> payload.notes, updated_at |-> t_updated,
            created_at |-> t_created],
   setOnInsert |-> [created_at |-> t_created]]
upsert_update_doc(user, payload, t_updated, t_created) ==
  [set |-> [user_id |-> Str(user._id),
            user_email |-> user.email,
            user_name |-> user.name,
            date |-> payload.date,
            is_available |-> payload.is_available,
            start_time |-> payload.start_time,
            end_time |-> payload.end_time,
            notes |-> payload.notes,
            updated_at |-> t_updated],
   setOnInsert |-> [created_at |-> t_created]]

MatchesQuery(d, query) == d.user_id = query.user_id /\ d.date = query.date

\* db.availability.update_one(query, update_doc, upsert=True), one atomic call
\* of the store: the collections it may leave.  A matching document gets the
\* $set; with none, one document is inserted from the filter, the $set and
\* the $setOnInsert.
update_one_always_inserting(coll, query, update_doc, id) ==
  {coll \cup {SetFields(SetFields(SetFields([_id |-> id], query), update_doc.set),
                        update_doc.setOnInsert)}}
update_one_upsert(coll, query, update_doc, id) ==
  IF {d \in coll : MatchesQuery(d, query)} = {}
    THEN {coll \cup {SetFields(SetFields(SetFields([_id |-> id], query), update_doc.set),
                               update_doc.setOnInsert)}}
    ELSE {(coll \ {d}) \cup {SetFields(d, update_doc.set)} :
            d \in {e \in coll : MatchesQuery(e, query)}}

\* upsert_my_availability up to its update_one
upsert_my_availability(h) ==
  /\ pc[h] = "body"
  /\ req[h].op = "upsert_my_availability"
  /\ IF ~strptime_Y_m_d(req[h].payload.date)
       THEN /\ Finish(h, HTTPException(400, "date must be in YYYY-MM-DD format"))
            /\ UNCHANGED <<availability, nextId, now, loc>>
     ELSE \E t_updated \in now..MaxClock : \E t_created \in t_updated..MaxClock :
            LET query == upsert_query(loc[h].user, req[h].payload)
                update_doc == upsert_update_doc(loc[h].user, req[h].payload,
                                                t_updated, t_created) IN
            /\ now' = t_created
            /\ \E after \in update_one_upsert(availability, query, update_doc, nextId) :
                 availability' = after
            /\ nextId' = IF Cardinality(availability') > Cardinality(availability)
                            THEN nextId + 1 ELSE nextId
            /\ loc' = [loc EXCEPT ![h] = [user |-> loc[h].user, query |-> query,
                                          update_doc |-> update_doc]]
            /\ pc' = [pc EXCEPT ![h] = "fetch"]
            /\ UNCHANGED resp
  /\ UNCHANGED <<users, shifts, schedules, nreq, req>>

\* upsert_my_availability's find_one after the update, and its response
upsert_my_availability_fetch(h) ==
  /\ pc[h] = "fetch"
  /\ req[h].op = "upsert_my_availability"
  /\ LET found == {d \in availability : MatchesQuery(d, loc[h].query)} IN
     IF found = {}
       THEN Finish(h, [status |-> 500, detail |-> "ValueError"])
       ELSE \E doc \in found : Finish(h, Ok(serialize_availability(doc, loc[h].user)))
  /\ UNCHANGED <<users, availability, shifts, nextId, now, schedules, nreq, req, loc>>

\* the documents get_my_availability_for_month's filter selects
my_month_filter_any_user(coll, user, month) ==
  {d \in coll : regex_starts_with(d.date, month)}
my_month_filter(coll, user, month) ==
  {d \in coll : d.user_id = Str(user._id) /\ regex_starts_with(d.date, month)}

get_my_availability_for_month(h) ==
  /\ pc[h] = "body"
  /\ req[h].op = "get_my_availability_for_month"
  /\ IF ~strptime_Y_m_d(req[h].month \o <<"-", "0", "1">>)
       THEN Finish(h, HTTPException(400, "month must be in YYYY-MM format"))
       ELSE \E cursor \in sort_by_date(my_month_filter(availability, loc[h].user,
                                                      req[h].month)) :
              Finish(h, Ok([i \in DOMAIN cursor |->
                              serialize_availability(cursor[i], loc[h].user)]))
  /\ UNCHANGED <<users, availability, shifts, nextId, now, schedules, nreq, req, loc>>

\* find({"date": {"$regex": "^" + month}}).sort([("date", 1), ("user_name", 1)])
sort_by_date_and_user_name(docs) ==
  {s \in [1..Cardinality(docs) -> docs] :
     /\ \A i, j \in DOMAIN s : i # j => s[i] # s[j]
     /\ \A i, j \in DOMAIN s : i < j =>
          /\ TextLeq(s[i].date, s[j].date)
          /\ s[i].date = s[j].date => TextLeq(s[i].user_name, s[j].user_name)}

admin_get_all_for_month(h) ==
  /\ pc[h] = "body"
  /\ req[h].op = "admin_get_all_for_month"
  /\ IF ~is_admin_user(loc[h].user)
       THEN Finish(h, HTTPException(403, "Admins only"))
     ELSE IF ~strptime_Y_m_d(req[h].month \o <<"-", "0", "1">>)
       THEN Finish(h, HTTPException(400, "month must be in YYYY-MM format"))
     ELSE \E cursor \in sort_by_date_and_user_name(
                          {d \in availability : regex_starts_with(d.date, req[h].month)}) :
            Finish(h, Ok([i \in DOMAIN cursor |->
                            serialize_availability(cursor[i], NoDoc)]))
  /\ UNCHANGED <<users, availability, shifts, schedules, nextId, now, nreq, req, loc>>

\* admin_get_for_guard up to its find_one by name
admin_get_for_guard(h) ==
  /\ pc[h] = "body"
  /\ req[h].op = "admin_get_for_guard"
  /\ LET guard == strip(req[h].guard)
         found == resolve_by_name(users, guard) IN
     IF ~is_admin_user(loc[h].user)
       THEN /\ Finish(h, HTTPException(403, "Admins only"))
            /\ UNCHANGED loc
     ELSE IF guard = ""
       THEN /\ Finish(h, HTTPException(400, "guard parameter is required"))
            /\ UNCHANGED loc
     ELSE IF found # {}
       THEN /\ \E user \in found :
                 loc' = [loc EXCEPT ![h] = [user |-> loc[h].user, guard |-> guard,
                                            guard_user |-> user]]
            /\ pc' = [pc EXCEPT ![h] = "list"]
            /\ UNCHANGED resp
     ELSE IF contains_at(guard)
       THEN /\ loc' = [loc EXCEPT ![h] = [user |-> loc[h].user, guard |-> guard]]
            /\ pc' = [pc EXCEPT ![h] = "by_email"]
            /\ UNCHANGED resp
     ELSE /\ Finish(h, Ok(<<>>))
          /\ UNCHANGED loc
  /\ UNCHANGED <<users, availability, shifts, schedules, nextId, now, nreq, req>>

\* admin_get_for_guard's find_one by e-mail
admin_get_for_guard_by_email(h) ==
  /\ pc[h] = "by_email"
  /\ req[h].op = "admin_get_for_guard"
  /\ LET found == resolve_by_email(users, loc[h].guard) IN
     IF found = {}
       THEN /\ Finish(h, Ok(<<>>))
            /\ UNCHANGED loc
       ELSE /\ \E user \in found :
                 loc' = [loc EXCEPT ![h] = [user |-> loc[h].user, guard |-> loc[h].guard,
                                            guard_user |-> user]]
            /\ pc' = [pc EXCEPT ![h] = "list"]
            /\ UNCHANGED resp
  /\ UNCHANGED <<users, availability, shifts, schedules, nextId, now, nreq, req>>

\* the documents admin_get_for_guard's query selects
guard_query(coll, user, month) ==
  {d \in coll : /\ d.user_id = Str(user._id)
                /\ month # <<>> => regex_starts_with(d.date, month)}

\* admin_get_for_guard's month check and find, and its response; an omitted
\* or empty month is the empty text
admin_get_for_guard_list(h) ==
  /\ pc[h] = "list"
  /\ req[h].op = "admin_get_for_guard"
  /\ IF req[h].month # <<>> /\ ~strptime_Y_m_d(req[h].month \o <<"-", "0", "1">>)
       THEN Finish(h, HTTPException(400, "month must be in YYYY-MM format"))
       ELSE \E cursor \in sort_by_date(guard_query(availability, loc[h].guard_user,
                                                    req[h].month)) :
              Finish(h, Ok([i \in DOMAIN cursor |->
                              serialize_availability(cursor[i], loc[h].guard_user)]))
  /\ UNCHANGED <<users, availability, shifts, schedules, nextId, now, nreq, req, loc>>

AvailabilityPayloads ==
  { [is_available |-> TRUE, start_time |-> "9:00 PM", end_time |-> "5:00 AM",
     notes |-> "late"],
    [is_available |-> FALSE, start_time |-> None, end_time |-> None,
     notes |-> None] }

(***************************************************************************)
(* Users (routers/users.py).                                               *)
(***************************************************************************)
\* register's pre-check: find_one({"email": user_in.email.lower()})
register_existing_exact_case(coll, email) == Matching(coll, "email", email)
register_existing(coll, email) == Matching(coll, "email", lower(email))

\* the document register inserts
new_user_doc(id, user_in, t) ==
  [_id |-> id,
   name |-> user_in.name,
   email |-> lower(user_in.email),
   password_hash |-> hash_password(user_in.password),
   role |-> "guard",
   created_at |-> t]

UserOut_with_digest(doc) ==
  [id |-> Str(doc._id), name |-> doc.name, email |-> doc.email,
   role |-> doc.role, created_at |-> doc.created_at,
   password_hash |-> doc.password_hash]
UserOut(doc) ==
  [id |-> Str(doc._id), name |-> doc.name, email |-> doc.email,
   role |-> doc.role, created_at |-> doc.created_at]

\* a request that needs no token reaches its handler
Route(h, r, max) ==
  /\ Accept(h, r, max)
  /\ pc' = [pc EXCEPT ![h] = "start"]
  /\ loc' = [loc EXCEPT ![h] = NoLoc]
  /\ resp' = [resp EXCEPT ![h] = NoResp]
  /\ UNCHANGED <<users, availability, shifts, schedules, nextId, now>>

\* a request for a method and path no router has a route for, such as
\* DELETE /api/availability/{id}
not_routed(h, r, max) ==
  /\ Accept(h, r, max)
  /\ Finish(h, HTTPException(404, "Not Found"))
  /\ loc' = [loc EXCEPT ![h] = NoLoc]
  /\ UNCHANGED <<users, availability, shifts, schedules, nextId, now>>

\* GET /api/health (main.py)
health(h) ==
  /\ pc[h] = "start"
  /\ req[h].op = "health"
  /\ Finish(h, Ok([status |-> "ok"]))
  /\ UNCHANGED <<users, availability, shifts, schedules, nextId, now, nreq, req, loc>>

\* register up to its find_one
register(h) ==
  /\ pc[h] = "start"
  /\ req[h].op = "register"
  /\ IF register_existing(users, req[h].user_in.email) # {}
       THEN Finish(h, HTTPException(400, "Email already registered"))
       ELSE /\ pc' = [pc EXCEPT ![h] = "insert"]
            /\ UNCHANGED resp
  /\ UNCHANGED <<users, availability, shifts, nextId, now, schedules, nreq, req, loc>>

\* register's insert_one, and its response
register_insert(h) ==
  /\ pc[h] = "insert"
  /\ req[h].op = "register"
  /\ \E t \in now..MaxClock :
       LET doc == new_user_doc(nextId, req[h].user_in, t) IN
       /\ now' = t
       /\ users' = users \cup {doc}
       /\ nextId' = nextId + 1
       /\ Finish(h, Ok(UserOut(doc)))
  /\ UNCHANGED <<availability, shifts, schedules, nreq, req, loc>>

\* create_access_token({"sub": str(user["_id"])})
create_access_token(user) == [kind |-> "signed", claims |-> Claims(user._id)]

\* login's decision on the user found and the password: the error, or NoDoc
login_rejection_tells_apart(user, password) ==
  IF user = NoDoc THEN HTTPException(404, "User not found")
  ELSE IF ~verify_password(password, user.password_hash)
    THEN HTTPException(400, "Invalid credentials")
  ELSE NoDoc
login_rejection(user, password) ==
  IF user = NoDoc \/ ~verify_password(password, user.password_hash)
    THEN HTTPException(400, "Invalid credentials")
    ELSE NoDoc

login(h) ==
  /\ pc[h] = "start"
  /\ req[h].op = "login"
  /\ LET found == Matching(users, "email", lower(req[h].username)) IN
     \E user \in (IF found = {} THEN {NoDoc} ELSE found) :
       IF login_rejection(user, req[h].password) # NoDoc
         THEN Finish(h, login_rejection(user, req[h].password))
         ELSE Finish(h, Ok([access_token |-> create_access_token(user),
                            token_type |-> "bearer",
                            user |-> UserOut(user)]))
  /\ UNCHANGED <<users, availability, shifts, schedules, nextId, now, nreq, req, loc>>

me(h) ==
  /\ pc[h] = "body"
  /\ req[h].op = "me"
  /\ Finish(h, Ok(UserOut(loc[h].user)))
  /\ UNCHANGED <<users, availability, shifts, nextId, now, schedules, nreq, req, loc>>

ProfileOut(user_doc) == [email |-> user_doc.email, name |-> user_doc.name]

\* update_profile, part 1: the password change
update_profile_password(h) ==
  /\ pc[h] = "body"
  /\ req[h].op = "update_profile"
  /\ req[h].payload.new_password # None
  /\ LET payload == req[h].payload
         user_doc == loc[h].user IN
     IF payload.current_password = None
       THEN /\ Finish(h, HTTPException(400,
                          "current_password is required to change password"))
            /\ UNCHANGED <<users, loc>>
     ELSE IF ~verify_password(payload.current_password, user_doc.password_hash)
       THEN /\ Finish(h, HTTPException(401, "Current password is incorrect"))
            /\ UNCHANGED <<users, loc>>
     ELSE LET new_hash == hash_password(payload.new_password) IN
          /\ users' = update_one_by_id(users, user_doc._id, [password_hash |-> new_hash])
          /\ loc' = [loc EXCEPT ![h] = [user |-> SetFields(user_doc,
                                                  [password_hash |-> new_hash])]]
          /\ pc' = [pc EXCEPT ![h] = "email"]
          /\ UNCHANGED resp
  /\ UNCHANGED <<availability, shifts, nextId, now, schedules, nreq, req>>

\* update_profile's pre-check of the new e-mail:
\* find_one({"email": new_email, "_id": {"$ne": user_doc["_id"]}})
email_in_use(coll, new_email, id) ==
  {u \in Matching(coll, "email", new_email) : u._id # id}

\* update_profile, part 2, up to the pre-check of the new e-mail
update_profile_email(h) ==
  /\ req[h].op = "update_profile"
  /\ \/ pc[h] = "email"
     \/ pc[h] = "body" /\ req[h].payload.new_password = None
  /\ LET payload == req[h].payload
         user_doc == loc[h].user IN
     IF payload.email # None /\ lower(payload.email) # user_doc.email
       THEN IF email_in_use(users, lower(payload.email), user_doc._id) # {}
              THEN Finish(h, HTTPException(409, "Email already in use"))
              ELSE /\ pc' = [pc EXCEPT ![h] = "write"]
                   /\ UNCHANGED resp
       ELSE Finish(h, Ok(ProfileOut(user_doc)))
  /\ UNCHANGED <<users, availability, shifts, nextId, now, schedules, nreq, req, loc>>

\* update_profile, part 2: the update_one of the e-mail, and the response
update_profile_email_write(h) ==
  /\ pc[h] = "write"
  /\ req[h].op = "update_profile"
  /\ LET new_email == lower(req[h].payload.email)
         user_doc == loc[h].user IN
     /\ users' = update_one_by_id(users, user_doc._id, [email |-> new_email])
     /\ Finish(h, Ok(ProfileOut(SetFields(user_doc, [email |-> new_email]))))
  /\ UNCHANGED <<availability, shifts, nextId, now, schedules, nreq, req, loc>>

RegisterRequests ==
  {[op |-> "register",
    user_in |-> [name |-> "Dee", email |-> e, password |-> "pwD"]] :
      e \in {"dee@x.com", "Bob@x.com"}}

ProfilePasswords ==
  { [current_password |-> None, new_password |-> None],
    [current_password |-> None, new_password |-> "pwN"],
    [current_password |-> "pwB", new_password |-> "pwN"],
    [current_password |-> "pwB", new_password |-> "pwM"] }

UserRequests ==
  {[op |-> "me", token |-> tk] : tk \in Tokens}
  \cup {[op |-> "update_profile", token |-> tk,
         payload |-> SetFields(p, [email |-> e])] :
      tk \in {[kind |-> "signed", claims |-> Claims(u._id)] : u \in {Bob, Cy}},
      p \in ProfilePasswords, e \in {None, "dee@x.com", "Bob@x.com"}}

(***************************************************************************)
(* Schedules (routers/schedules.py).                                       *)
(***************************************************************************)
\* None in a field that otherwise holds the text of an id
NoneId == <<"None", 0>>

\* x or default, for a text x that may be None
OrText(x, default) == IF x = None \/ x = "" THEN default ELSE x

serialize_schedule(doc) ==
  [id |-> Str(doc._id),
   guard |-> doc.guard,
   guard_id |-> doc.guard_id,
   note |-> doc.note,
   shifts |-> doc.shifts,
   created_at |-> doc.created_at,
   created_by_admin_id |-> doc.created_by_admin_id]

\* what create_schedule reads from its payload
payload_guard(payload) == strip(OrText(Get(payload, "guard", None), ""))
payload_note(payload) == strip(OrText(Get(payload, "note", None), ""))
payload_shifts(payload) == Get(payload, "shifts", <<>>)

\* create_schedule's validation: the error it raises, or NoDoc
schedule_rejection_guard_only(guard, shifts_in) ==
  IF guard = "" THEN HTTPException(400, "Guard is required") ELSE NoDoc
schedule_rejection(guard, shifts_in) ==
  IF guard = "" THEN HTTPException(400, "Guard is required")
  ELSE IF shifts_in = <<>> THEN HTTPException(400, "At least one shift is required")
  ELSE NoDoc

clean_shift(s) ==
  [date |-> Get(s, "date", None),
   start_time |-> Get(s, "start_time", None),
   end_time |-> Get(s, "end_time", None)]

\* guard_id = str(guard_user["_id"]) if guard_user else None
guard_id_of(guard_user) ==
  IF guard_user = NoDoc THEN NoneId ELSE Str(guard_user._id)

\* the document create_schedule inserts
new_schedule_doc(id, guard, guard_id, note, shifts_in, t, admin) ==
  [_id |-> id,
   guard |-> guard,
   guard_id |-> guard_id,
   note |-> note,
   shifts |-> [i \in DOMAIN shifts_in |-> clean_shift(shifts_in[i])],
   created_at |-> t,
   created_by_admin_id |-> Str(admin._id)]

\* create_schedule up to its find_one by name
create_schedule(h) ==
  /\ pc[h] = "body"
  /\ req[h].op = "create_schedule"
  /\ LET guard == payload_guard(req[h].payload)
         rejection == schedule_rejection(guard, payload_shifts(req[h].payload))
         found == resolve_by_name(users, guard) IN
     IF ~is_admin_user(loc[h].user)
       THEN /\ Finish(h, HTTPException(403, "Admins only"))
            /\ UNCHANGED loc
     ELSE IF rejection # NoDoc
       THEN /\ Finish(h, rejection)
            /\ UNCHANGED loc
     ELSE IF found # {}
       THEN /\ \E guard_user \in found :
                 loc' = [loc EXCEPT ![h] = [user |-> loc[h].user, guard |-> guard,
                                            guard_user |-> guard_user]]
            /\ pc' = [pc EXCEPT ![h] = "insert"]
            /\ UNCHANGED resp
     ELSE IF contains_at(guard)
       THEN /\ loc' = [loc EXCEPT ![h] = [user |-> loc[h].user, guard |-> guard]]
            /\ pc' = [pc EXCEPT ![h] = "by_email"]
            /\ UNCHANGED resp
     ELSE /\ loc' = [loc EXCEPT ![h] = [user |-> loc[h].user, guard |-> guard,
                                        guard_user |-> NoDoc]]
          /\ pc' = [pc EXCEPT ![h] = "insert"]
          /\ UNCHANGED resp
  /\ UNCHANGED <<users, availability, shifts, schedules, nextId, now, nreq, req>>

\* create_schedule's find_one by e-mail
create_schedule_by_email(h) ==
  /\ pc[h] = "by_email"
  /\ req[h].op = "create_schedule"
  /\ LET found == resolve_by_email(users, loc[h].guard) IN
     \E guard_user \in (IF found = {} THEN {NoDoc} ELSE found) :
       loc' = [loc EXCEPT ![h] = [user |-> loc[h].user, guard |-> loc[h].guard,
                                  guard_user |-> guard_user]]
  /\ pc' = [pc EXCEPT ![h] = "insert"]
  /\ UNCHANGED <<users, availability, shifts, schedules, nextId, now, nreq, req, resp>>

\* create_schedule's insert_one, and its response
create_schedule_insert(h) ==
  /\ pc[h] = "insert"
  /\ req[h].op = "create_schedule"
  /\ \E t \in now..MaxClock :
       LET doc == new_schedule_doc(nextId, loc[h].guard, guard_id_of(loc[h].guard_user),
                                   payload_note(req[h].payload),
                                   payload_shifts(req[h].payload), t, loc[h].user) IN
       /\ now' = t
       /\ schedules' = schedules \cup {doc}
       /\ nextId' = nextId + 1
       /\ Finish(h, Ok(serialize_schedule(doc)))
  /\ UNCHANGED <<users, availability, shifts, nreq, req, loc>>

\* the schedules get_my_schedules's $or filter selects
my_schedules_query_id_only(coll, current_user) ==
  {d \in coll : d.guard_id = Str(current_user._id)}
my_schedules_query_unstripped(coll, current_user) ==
  {d \in coll : \/ d.guard_id = Str(current_user._id)
                \/ d.guard = current_user.name
                \/ d.guard = current_user.email}
my_schedules_query(coll, current_user) ==
  LET user_id == Str(current_user._id)
      name == strip(OrText(Get(current_user, "name", None),
                           OrText(Get(current_user, "full_name", None), "")))
      email == strip(lower(OrText(Get(current_user, "email", None), ""))) IN
  {d \in coll : \/ d.guard_id = user_id
                \/ name # "" /\ d.guard = name
                \/ email # "" /\ d.guard = email}

\* find(...).sort("created_at", -1): the orders in which the cursor may yield
sort_by_created_at_desc(docs) ==
  {s \in [1..Cardinality(docs) -> docs] :
     /\ \A i, j \in DOMAIN s : i # j => s[i] # s[j]
     /\ \A i, j \in DOMAIN s : i < j => s[i].created_at >= s[j].created_at}

get_my_schedules(h) ==
  /\ pc[h] = "body"
  /\ req[h].op = "get_my_schedules"
  /\ \E cursor \in sort_by_created_at_desc(my_schedules_query(schedules, loc[h].user)) :
       Finish(h, Ok([i \in DOMAIN cursor |-> serialize_schedule(cursor[i])]))
  /\ UNCHANGED <<users, availability, shifts, schedules, nextId, now, nreq, req, loc>>

(***************************************************************************)
(* The store at the start: the three users, a shift Bob has logged, an     *)
(* availability Bob has submitted and a schedule Ann has created for a     *)
(* guard who is not a user, all at time 0.                                 *)
(***************************************************************************)
SeedShifts ==
  {new_shift_doc(Cardinality(SeedUsers) + 1, Bob,
                 [date |-> "2025-11-27", venue |-> "Club", start_time |-> "9:00 PM",
                  end_time |-> "5:00 AM", total_hours |-> 8, notes |-> "door"], 0)}

SeedPayload ==
  [date |-> Nov27, is_available |-> TRUE, start_time |-> "9:00 PM",
   end_time |-> "5:00 AM", notes |-> "late"]

SeedAvailability ==
  CHOOSE coll \in update_one_upsert({}, upsert_query(Bob, SeedPayload),
                                    upsert_update_doc(Bob, SeedPayload, 0, 0),
                                    Cardinality(SeedUsers) + 2) : TRUE

ShiftEntries ==
  << [guard |-> "Big Papi", date |-> "2025-11-27", start_time |-> "9:00 PM",
      end_time |-> "5:00 AM"],
     [date |-> "2025-11-28"] >>

SeedSchedules ==
  {new_schedule_doc(Cardinality(SeedUsers) + 3, "Big Papi", guard_id_of(NoDoc), "",
                    SubSeq(ShiftEntries, 1, 1), 0, Ann)}

Init ==
  /\ users = SeedUsers
  /\ availability = SeedAvailability
  /\ shifts = SeedShifts
  /\ schedules = SeedSchedules
  /\ nextId = Cardinality(SeedUsers) + 4
  /\ now = 0
  /\ nreq = 0
  /\ pc = [h \in Handlers |-> "idle"]
  /\ req = [h \in Handlers |-> NoReq]
  /\ loc = [h \in Handlers |-> NoLoc]
  /\ resp = [h \in Handlers |-> NoResp]

(***************************************************************************)
(* The specifications: the requests of one router, over the same store.    *)
(***************************************************************************)
ShiftTokens == GoodTokens \cup {[kind |-> "expired", claims |-> Claims(Bob._id)]}

ShiftRequests ==
  {[op |-> "create_shift", token |-> tk, shift |-> s] :
      tk \in ShiftTokens, s \in ShiftInputs}
  \cup {[op |-> "set_shift_paid", token |-> tk, shift_id |-> i, paid |-> p] :
      tk \in ShiftTokens, i \in ShiftIdTexts, p \in BOOLEAN}
  \cup {[op |-> "delete_shift", token |-> tk, shift_id |-> i] :
      tk \in ShiftTokens, i \in ShiftIdTexts}

StartShiftRequest(h) == \E r \in ShiftRequests : get_current_user(h, r, MaxShiftReqs)

NextShifts ==
  \E h \in Handlers :
    \/ StartShiftRequest(h)
    \/ create_shift(h)
    \/ set_shift_paid(h)
    \/ set_shift_paid_fetch(h)
    \/ delete_shift(h)
    \/ delete_shift_delete(h)

SpecShifts == Init /\ [][NextShifts]_vars

AvailTokens ==
  {[kind |-> "signed", claims |-> Claims(u._id)] : u \in {Bob, Cy}}
    \cup {[kind |-> "badsig", claims |-> Claims(Bob._id)]}

AvailRequests ==
  {[op |-> "upsert_my_availability", token |-> tk,
    payload |-> SetFields(p, [date |-> d])] :
      tk \in AvailTokens, p \in AvailabilityPayloads, d \in {Nov27, Dec01, Nov31}}
  \cup {[op |-> "get_my_availability_for_month", token |-> tk, month |-> m] :
      tk \in AvailTokens, m \in {MonthNov, Month13, MonthOneDigit}}

StartAvailRequest(h) == \E r \in AvailRequests : get_current_user(h, r, MaxAvailReqs)

NextAvail ==
  \E h \in Handlers :
    \/ StartAvailRequest(h)
    \/ upsert_my_availability(h)
    \/ upsert_my_availability_fetch(h)
    \/ get_my_availability_for_month(h)

SpecAvail == Init /\ [][NextAvail]_vars

LoginRequests ==
  {[op |-> "login", username |-> u, password |-> pw] :
      u \in {"Bob@x.com", "ghost@x.com"}, pw \in {"pwB", "pwX"}}

StartRegister(h) == \E r \in RegisterRequests : Route(h, r, MaxUserReqs)
StartLogin(h) == \E r \in LoginRequests : Route(h, r, MaxUserReqs)
StartUserRequest(h) == \E r \in UserRequests : get_current_user(h, r, MaxUserReqs)

NextUsers ==
  \E h \in Handlers :
    \/ StartRegister(h)
    \/ StartUserRequest(h)
    \/ register(h)
    \/ register_insert(h)
    \/ StartLogin(h)
    \/ login(h)
    \/ me(h)
    \/ update_profile_password(h)
    \/ update_profile_email(h)
    \/ update_profile_email_write(h)

SpecUsers == Init /\ [][NextUsers]_vars

AdminTokens == {[kind |-> "signed", claims |-> Claims(u._id)] : u \in {Ann, Bob}}

SchedulePayloads ==
  { [guard |-> "Big Papi", note |-> " bring ID ", shifts |-> SubSeq(ShiftEntries, 1, 1)],
    [guard |-> " Bob ", shifts |-> ShiftEntries],
    [guard |-> "Cy@X.com", shifts |-> SubSeq(ShiftEntries, 1, 1)],
    [guard |-> "ghost@x.com", shifts |-> SubSeq(ShiftEntries, 2, 2)],
    [guard |-> "   ", shifts |-> ShiftEntries],
    [note |-> "no guard", shifts |-> ShiftEntries],
    [guard |-> "Big Papi", shifts |-> <<>>],
    [guard |-> "Bob"] }

\* the user a register of this model inserts first gets the next id
NewUserToken == [kind |-> "signed", claims |-> Claims(Cardinality(SeedUsers) + 4)]

SchedRequests ==
  {[op |-> "create_schedule", token |-> tk, payload |-> p] :
      tk \in AdminTokens, p \in SchedulePayloads}
  \cup {[op |-> "get_my_schedules", token |-> tk] :
      tk \in {[kind |-> "signed", claims |-> Claims(Bob._id)], NewUserToken}}

SchedRegisterRequests ==
  {[op |-> "register",
    user_in |-> [name |-> n, email |-> "papi@x.com", password |-> "pwP"]] :
      n \in {"Big Papi", " Big Papi "}}

StartSchedRequest(h) == \E r \in SchedRequests : get_current_user(h, r, MaxSchedReqs)
StartSchedRegister(h) == \E r \in SchedRegisterRequests : Route(h, r, MaxSchedReqs)

NextSched ==
  \E h \in Handlers :
    \/ StartSchedRequest(h)
    \/ StartSchedRegister(h)
    \/ register(h)
    \/ register_insert(h)
    \/ create_schedule(h)
    \/ create_schedule_by_email(h)
    \/ create_schedule_insert(h)
    \/ get_my_schedules(h)

SpecSched == Init /\ [][NextSched]_vars

GuardReferences == {" Bob ", " Cy@X.com ", "ghost@x.com", "Ghost", "  "}

AdminRequests ==
  {[op |-> "admin_get_all_for_month", token |-> tk, month |-> m] :
      tk \in AdminTokens, m \in {MonthNov, Month13}}
  \cup {[op |-> "admin_get_for_guard", token |-> tk, guard |-> g, month |-> m] :
      tk \in AdminTokens, g \in GuardReferences, m \in {<<>>, MonthNov, Month13}}
  \cup {[op |-> "admin_list_shifts", token |-> tk] : tk \in AdminTokens}

\* DELETE /api/availability/{id} for the availability stored at the start
DeleteAvailabilityRequests ==
  {[op |-> "delete_availability", token |-> tk,
    availability_id |-> Str(Cardinality(SeedUsers) + 2)] : tk \in GoodTokens}

MyShiftsRequests ==
  {[op |-> "get_my_shifts", token |-> tk, page |-> p, page_size |-> n] :
      tk \in ShiftTokens, p \in {1, 2}, n \in {1, 20}}

HealthRequests == {[op |-> "health"]}

AllRequests ==
  ShiftRequests \cup AvailRequests \cup UserRequests \cup SchedRequests
    \cup AdminRequests \cup MyShiftsRequests

StartRequest(h) == \E r \in AllRequests : get_current_user(h, r, MaxAllReqs)
StartOpenRequest(h) ==
  \E r \in RegisterRequests \cup SchedRegisterRequests \cup LoginRequests
            \cup HealthRequests :
    Route(h, r, MaxAllReqs)
StartDeleteAvailability(h) ==
  \E r \in DeleteAvailabilityRequests : not_routed(h, r, MaxAllReqs)

NextAll ==
  \E h \in Handlers :
    \/ StartRequest(h)
    \/ StartOpenRequest(h)
    \/ StartDeleteAvailability(h)
    \/ register(h)
    \/ register_insert(h)
    \/ login(h)
    \/ me(h)
    \/ update_profile_password(h)
    \/ update_profile_email(h)
    \/ update_profile_email_write(h)
    \/ create_shift(h)
    \/ set_shift_paid(h)
    \/ set_shift_paid_fetch(h)
    \/ delete_shift(h)
    \/ delete_shift_delete(h)
    \/ get_my_shifts(h)
    \/ admin_list_shifts(h)
    \/ admin_list_shifts_enrich(h)
    \/ health(h)
    \/ upsert_my_availability(h)
    \/ upsert_my_availability_fetch(h)
    \/ get_my_availability_for_month(h)
    \/ admin_get_all_for_month(h)
    \/ admin_get_for_guard(h)
    \/ admin_get_for_guard_by_email(h)
    \/ admin_get_for_guard_list(h)
    \/ create_schedule(h)
    \/ create_schedule_by_email(h)
    \/ create_schedule_insert(h)
    \/ get_my_schedules(h)

SpecAll == Init /\ [][NextAll]_vars

(***************************************************************************)
(* Properties of the shift operations.                                     *)
(***************************************************************************)
ShiftIds(coll) == {d._id : d \in coll}

\* the stored user a request's token names
Caller(h) == CHOOSE u \in users : u._id = ObjectId(req[h].token.claims.sub)

\* handler h takes the step of delete_shift that looks the shift up
DeleteLooksUp(h) ==
  /\ pc[h] = "body" /\ req[h].op = "delete_shift" /\ pc'[h] # "body"
  /\ ObjectId_is_valid(req[h].shift_id)
  /\ ObjectId(req[h].shift_id) \in ShiftIds(shifts)

\* handler h takes the step of delete_shift that deletes
DeleteDeletes(h) ==
  pc[h] = "delete" /\ req[h].op = "delete_shift" /\ pc'[h] = "done"

OwnerOrAdmin(u, shift) == u.role = "admin" \/ Str(u._id) = shift.user_id

\* C4: delete shift on an existing shift goes on to delete it, and answers
\* with success, exactly when the caller is an admin or the shift's owner;
\* any other caller gets 403 and the step leaves the shifts as they are; and
\* no shift leaves the store except by the delete of such a caller.
C4_DeleteShiftOwnerOrAdmin ==
  [][ /\ \A h \in Handlers : DeleteLooksUp(h) =>
            LET shift == CHOOSE d \in shifts : d._id = ObjectId(req[h].shift_id) IN
            IF OwnerOrAdmin(Caller(h), shift)
              THEN pc'[h] = "delete"
              ELSE /\ pc'[h] = "done"
                   /\ resp'[h] = HTTPException(403, "Not allowed")
                   /\ shifts' = shifts
      /\ \A h \in Handlers : DeleteDeletes(h) =>
            /\ ObjectId(req[h].shift_id) \notin ShiftIds(shifts')
            /\ resp'[h].status = 200
      /\ \A d \in shifts : d._id \notin ShiftIds(shifts') =>
            \E h \in Handlers :
              /\ DeleteDeletes(h)
              /\ ObjectId(req[h].shift_id) = d._id
              /\ OwnerOrAdmin(Caller(h), d)
    ]_vars

\* a guard who is not the owner was refused and the shift is still stored,
\* while the owner's delete of the same shift has passed the check
C4_Witness ==
  \E h, g \in Handlers :
    /\ pc[h] = "done" /\ req[h].op = "delete_shift" /\ resp[h].status = 403
    /\ \E d \in shifts : Str(d._id) = req[h].shift_id /\ d.user_id # Str(Caller(h)._id)
    /\ pc[g] = "delete" /\ req[g].shift_id = req[h].shift_id
    /\ Caller(g).role = "guard"

\* handler h takes the step of set_shift_paid that updates the store
SetPaidUpdates(h) ==
  pc[h] = "body" /\ req[h].op = "set_shift_paid" /\ pc'[h] = "fetch"

\* C8: a shift enters the store with paid = FALSE, and the paid value of a
\* stored shift changes only in the update step of a set-paid request whose
\* caller's stored role is admin, to the value that request asks for.
C8_PaidOnlyByAdmin ==
  [][ /\ \A d \in shifts' : d._id \notin ShiftIds(shifts) => d.paid = FALSE
      /\ \A d \in shifts : \A e \in shifts' :
            (d._id = e._id /\ d.paid # e.paid) =>
              \E h \in Handlers :
                /\ SetPaidUpdates(h)
                /\ ObjectId(req[h].shift_id) = d._id
                /\ Caller(h).role = "admin"
                /\ e.paid = req[h].paid
    ]_vars

\* a set-paid request read TRUE back, and the shift is stored unpaid again:
\* paid has gone from FALSE to TRUE and from TRUE to FALSE
C8_Witness ==
  \E h \in Handlers :
    /\ pc[h] = "done" /\ req[h].op = "set_shift_paid" /\ resp[h].status = 200
    /\ resp[h].body # <<>> /\ resp[h].body.paid = TRUE
    /\ \E d \in shifts : Str(d._id) = req[h].shift_id /\ d.paid = FALSE

\* every field of d but those in `except` is a field of e with the same value,
\* and e has no further field
SameBut(d, e, except) ==
  \A f \in ((DOMAIN d) \cup (DOMAIN e)) \ except :
    f \in DOMAIN d /\ f \in DOMAIN e /\ d[f] = e[f]

\* C9 (as claimed): the update of set-paid sets paid to the requested value,
\* alters no other field of that shift and no other shift, and a fetch of the
\* shift then shows the new paid value and every other field as before.
C9_Original_OnlyPaidAltered ==
  [][ \A h \in Handlers : SetPaidUpdates(h) =>
        /\ ShiftIds(shifts') = ShiftIds(shifts)
        /\ \A d \in shifts : \E e \in shifts' :
              /\ e._id = d._id
              /\ IF d._id = ObjectId(req[h].shift_id)
                   THEN /\ e.paid = req[h].paid
                        /\ SameBut(d, e, {"paid"})
                        /\ serialize_shift(e) =
                             [serialize_shift(d) EXCEPT !.paid = req[h].paid]
                   ELSE e = d
    ]_vars

\* C9 (amended): the update of set-paid sets paid to the requested value and
\* updated_at to the time of the request, alters no other field of that shift
\* and no other shift, and a fetch of the shift then shows the new paid value
\* and every other field it shows as before.
C9_OnlyPaidAndUpdatedAtAltered ==
  [][ \A h \in Handlers : SetPaidUpdates(h) =>
        /\ ShiftIds(shifts') = ShiftIds(shifts)
        /\ \A d \in shifts : \E e \in shifts' :
              /\ e._id = d._id
              /\ IF d._id = ObjectId(req[h].shift_id)
                   THEN /\ e.paid = req[h].paid
                        /\ e.updated_at = now'
                        /\ SameBut(d, e, {"paid", "updated_at"})
                        /\ serialize_shift(e) =
                             [serialize_shift(d) EXCEPT !.paid = req[h].paid]
                   ELSE e = d
    ]_vars

\* a set-paid request has updated one of two stored shifts
C9_Witness ==
  \E h \in Handlers :
    /\ pc[h] = "fetch" /\ req[h].op = "set_shift_paid" /\ req[h].paid = TRUE
    /\ Cardinality(shifts) = 2
    /\ \E d \in shifts : Str(d._id) = req[h].shift_id /\ d.paid = TRUE

\* handler h, an admin's set-paid request, takes its step on the store
SetPaidActs(h) ==
  /\ pc[h] = "body" /\ req[h].op = "set_shift_paid" /\ pc'[h] # "body"
  /\ Caller(h).role = "admin"

\* C10 (as claimed): an admin's set-paid for a shift id that is not in the
\* store is answered 404 and changes no shift.
C10_Original_AbsentIdNotFound ==
  [][ \A h \in Handlers :
        (SetPaidActs(h) /\ \A d \in shifts : Str(d._id) # req[h].shift_id) =>
          /\ resp'[h] = HTTPException(404, "Shift not found")
          /\ shifts' = shifts
    ]_vars

\* C10 (amended): an admin's set-paid for a well-formed shift id that is not
\* in the store is answered 404, and for a malformed id 400; either way it
\* changes no shift.
C10_AbsentIdNotFound ==
  [][ \A h \in Handlers :
        (SetPaidActs(h) /\ \A d \in shifts : Str(d._id) # req[h].shift_id) =>
          /\ resp'[h] = IF ObjectId_is_valid(req[h].shift_id)
                          THEN HTTPException(404, "Shift not found")
                          ELSE HTTPException(400, "Invalid shift id")
          /\ shifts' = shifts
    ]_vars

\* an admin's set-paid for a well-formed id was answered 404 while another
\* shift is stored
C10_Witness ==
  \E h \in Handlers :
    /\ pc[h] = "done" /\ req[h].op = "set_shift_paid" /\ resp[h].status = 404
    /\ ObjectId_is_valid(req[h].shift_id)
    /\ shifts # {}

(***************************************************************************)
(* Properties of the availability operations.                              *)
(***************************************************************************)
SameKey(d, e) == d.user_id = e.user_id /\ d.date = e.date

MutableFields == {"is_available", "start_time", "end_time", "notes"}
PayloadOf(r) == [f \in MutableFields |-> Get(r, f, None)]

\* handler h takes the step of the upsert that executes update_one
UpsertWrites(h) ==
  pc[h] = "body" /\ req[h].op = "upsert_my_availability" /\ pc'[h] = "fetch"

\* the key of handler h's upsert: the caller's id and the payload's date
KeyOf(h) == [user_id |-> Str(Caller(h)._id), date |-> req[h].payload.date]

\* C1: in every reachable state, also between the store steps of upserts
\* that interleave, no two availability records have the same user_id and
\* date.
C1_OneRecordPerUserAndDate ==
  \A d, e \in availability : SameKey(d, e) => d = e

\* two upserts of one user for one date have both executed their update and
\* neither has read the record back; one record is stored for the key
C1_Witness ==
  \E h, g \in Handlers :
    /\ h # g
    /\ pc[h] = "fetch" /\ req[h].op = "upsert_my_availability"
    /\ pc[g] = "fetch" /\ req[g].op = "upsert_my_availability"
    /\ loc[h].query = loc[g].query
    /\ Cardinality({d \in availability : MatchesQuery(d, loc[h].query)}) = 1

\* C2: when an upsert's payload equals the payload fields of the record
\* stored for its (user_id, date), the update leaves exactly one record for
\* the key, the same document, with the same payload fields and the same
\* created_at, and with updated_at the time this request took.
C2_SamePayloadTwice ==
  [][ \A h \in Handlers : UpsertWrites(h) =>
        \A d \in availability :
          (SameKey(d, KeyOf(h)) /\ PayloadOf(d) = PayloadOf(req[h].payload)) =>
            /\ Cardinality({e \in availability' : SameKey(e, d)}) = 1
            /\ \A e \in availability' : SameKey(e, d) =>
                 /\ e._id = d._id
                 /\ PayloadOf(e) = PayloadOf(d)
                 /\ e.created_at = d.created_at
                 /\ e.updated_at = loc'[h].update_doc.set.updated_at
    ]_vars

\* the first submission was read back with created_at = updated_at, and a
\* second one with the same payload has updated the record at a later time
C2_Witness ==
  \E h, g \in Handlers :
    /\ pc[g] = "done" /\ req[g].op = "upsert_my_availability" /\ resp[g].status = 200
    /\ pc[h] = "fetch" /\ req[h].op = "upsert_my_availability"
    /\ req[h].payload = req[g].payload /\ req[h].token = req[g].token
    /\ PayloadOf(resp[g].body) = PayloadOf(req[h].payload)
    /\ resp[g].body.updated_at = resp[g].body.created_at
    /\ \E d \in availability :
         /\ MatchesQuery(d, loc[h].query)
         /\ PayloadOf(d) = PayloadOf(req[h].payload)
         /\ d.created_at = resp[g].body.created_at
         /\ d.updated_at > d.created_at

\* the year and month a date or month text names
FirstDash(t) == CHOOSE i \in DOMAIN t : t[i] = "-" /\ \A j \in 1..(i - 1) : t[j] # "-"
AfterYear(t) == SubSeq(t, FirstDash(t) + 1, Len(t))
YearOf(t) == Num(SubSeq(t, 1, FirstDash(t) - 1))
MonthOf(t) ==
  IF \E i \in DOMAIN AfterYear(t) : AfterYear(t)[i] = "-"
    THEN Num(SubSeq(AfterYear(t), 1, FirstDash(AfterYear(t)) - 1))
    ELSE Num(AfterYear(t))
InMonth(date, month) == YearOf(date) = YearOf(month) /\ MonthOf(date) = MonthOf(month)

\* handler h takes the step of list-own-availability that answers with a list
ListsMonth(h) ==
  /\ pc[h] = "body" /\ req[h].op = "get_my_availability_for_month"
  /\ pc'[h] = "done" /\ resp'[h].status = 200

\* C3: an upsert that finds a record for its (user_id, date) leaves that one
\* record with every mutable field equal to the payload's value, None
\* included, and with its created_at untouched; and a listing of a month for
\* a user has exactly one entry for each date the user has a record for in
\* that month, showing the stored values.
C3_UpsertOverwritesAndListsOnce ==
  [][ /\ \A h \in Handlers : UpsertWrites(h) =>
           \A d \in availability : SameKey(d, KeyOf(h)) =>
             /\ Cardinality({e \in availability' : SameKey(e, d)}) = 1
             /\ \A e \in availability' : SameKey(e, d) =>
                  /\ e._id = d._id
                  /\ PayloadOf(e) = PayloadOf(req[h].payload)
                  /\ e.created_at = d.created_at
      /\ \A h \in Handlers : ListsMonth(h) =>
           \A d \in availability :
             (d.user_id = Str(Caller(h)._id) /\ InMonth(d.date, req[h].month)) =>
               /\ Cardinality({i \in DOMAIN resp'[h].body :
                                 resp'[h].body[i].date = d.date}) = 1
               /\ \E i \in DOMAIN resp'[h].body :
                    /\ resp'[h].body[i].id = Str(d._id)
                    /\ PayloadOf(resp'[h].body[i]) = PayloadOf(d)
                    /\ resp'[h].body[i].created_at = d.created_at
                    /\ resp'[h].body[i].updated_at = d.updated_at
    ]_vars

\* a submission that leaves notes null has overwritten the record stored
\* with notes set and was read back with the older created_at; the month's
\* listing then has the one entry for the date, with the submission's values
C3_Witness ==
  \E h, g \in Handlers :
    /\ pc[g] = "done" /\ req[g].op = "upsert_my_availability" /\ resp[g].status = 200
    /\ \E d \in SeedAvailability :
         /\ resp[g].body.id = Str(d._id) /\ d.notes # None /\ d.is_available
         /\ resp[g].body.created_at = d.created_at
    /\ resp[g].body.notes = None /\ ~resp[g].body.is_available
    /\ resp[g].body.updated_at > resp[g].body.created_at
    /\ pc[h] = "done" /\ req[h].op = "get_my_availability_for_month"
    /\ resp[h].status = 200 /\ req[h].token = req[g].token
    /\ resp[h].body = <<resp[g].body>>

(***************************************************************************)
(* Properties of authentication and of the user operations.                *)
(***************************************************************************)
\* handler h's request was refused by get_current_user
AuthenticationFailed(h) ==
  /\ pc[h] = "done" /\ "token" \in DOMAIN req[h]
  /\ resp[h].status = 401 /\ loc[h] = NoLoc

\* C5 (as claimed): every authentication failure (malformed, expired or
\* wrongly signed token, no subject claim, subject that is no stored user)
\* gets the same response, status and content.
C5_AuthFailuresIndistinguishable ==
  \A h, g \in Handlers :
    (AuthenticationFailed(h) /\ AuthenticationFailed(g)) => resp[h] = resp[g]

\* C6 (as claimed): in every reachable state no two user records have the
\* same lowercased email.
C6_EmailsUnique ==
  \A u, v \in users : lower(u.email) = lower(v.email) => u = v

\* handler h takes the step of register that runs the pre-check
RegisterChecks(h) ==
  pc[h] = "start" /\ req[h].op = "register" /\ pc'[h] # "start"

\* C7: a register request whose email equals, ignoring case, the email of a
\* stored user is answered with the error "Email already registered" at its
\* pre-check, which leaves the users as they are, and it never inserts.
C7_RegisterDuplicateRejected ==
  [][ \A h \in Handlers :
        (RegisterChecks(h)
           /\ \E u \in users : lower(u.email) = lower(req[h].user_in.email)) =>
          /\ pc'[h] = "done"
          /\ resp'[h] = HTTPException(400, "Email already registered")
          /\ users' = users
    ]_vars

\* a register with Bob's email in another case was rejected; Bob's record is
\* the only one with that email
C7_Witness ==
  \E h \in Handlers :
    /\ pc[h] = "done" /\ req[h].op = "register" /\ resp[h].status = 400
    /\ req[h].user_in.email # lower(req[h].user_in.email)
    /\ {u \in users : u.email = lower(req[h].user_in.email)} = {Bob}

(***************************************************************************)
(* Properties of the admin operations.                                     *)
(***************************************************************************)
AdminOps ==
  {"admin_get_all_for_month", "admin_get_for_guard", "admin_list_shifts",
   "set_shift_paid", "create_schedule"}

\* handler h, authenticated, takes the first step of its operation
FirstStep(h) == pc[h] = "body" /\ pc'[h] # "body"

\* C11: the first step of an admin operation after authentication answers a
\* caller whose stored role is not "admin" with 403, which is not the 401 of
\* an authentication failure, and leaves every collection as it is; it
\* answers no caller whose stored role is "admin" with 401 or 403.
C11_AdminOperationsAdminOnly ==
  [][ \A h \in Handlers : (FirstStep(h) /\ req[h].op \in AdminOps) =>
        IF Caller(h).role = "admin"
          THEN pc'[h] = "done" => resp'[h].status \notin {401, 403}
          ELSE /\ pc'[h] = "done"
               /\ resp'[h] = HTTPException(403, "Admins only")
               /\ resp'[h].status # 401
               /\ <<users, availability, shifts, schedules>>' =
                    <<users, availability, shifts, schedules>>
    ]_vars

\* a guard's create schedule with a guard reference and a shift list was
\* answered 403 and no schedule was added
C11_Witness ==
  \E h \in Handlers :
    /\ pc[h] = "done" /\ req[h].op = "create_schedule"
    /\ Caller(h).role = "guard"
    /\ schedule_rejection(payload_guard(req[h].payload),
                          payload_shifts(req[h].payload)) = NoDoc
    /\ resp[h].status = 403
    /\ schedules = SeedSchedules

(***************************************************************************)
(* Properties of the schedule operations.                                  *)
(***************************************************************************)
\* handler h takes the step of create_schedule that inserts
ScheduleInserts(h) ==
  pc[h] = "insert" /\ req[h].op = "create_schedule" /\ pc'[h] = "done"

\* handler h takes the step of get_my_schedules
ListsSchedules(h) ==
  pc[h] = "body" /\ req[h].op = "get_my_schedules" /\ pc'[h] = "done"

\* C12: a create schedule whose look-ups find no user for the trimmed guard
\* reference, by name and where it looks by e-mail, inserts the schedule
\* with guard_id None; no step, a register included, alters or removes a
\* stored schedule; and list own schedules returns to a user every schedule
\* whose guard equals the user's name and whose guard_id is None, showing
\* guard_id None, not the user's id.
C12_UnresolvedScheduleFoundByName ==
  [][ /\ \A h \in Handlers :
           (FirstStep(h) /\ req[h].op = "create_schedule" /\ pc'[h] = "insert"
              /\ ~\E u \in users : u.name = payload_guard(req[h].payload)) =>
             loc'[h].guard_user = NoDoc
      /\ \A h \in Handlers :
           (pc[h] = "by_email" /\ req[h].op = "create_schedule" /\ pc'[h] = "insert"
              /\ ~\E u \in users : u.email = lower(payload_guard(req[h].payload))) =>
             loc'[h].guard_user = NoDoc
      /\ \A h \in Handlers : (ScheduleInserts(h) /\ loc[h].guard_user = NoDoc) =>
           /\ resp'[h].status = 200 /\ resp'[h].body.guard_id = NoneId
           /\ \E d \in schedules' \ schedules :
                /\ schedules' = schedules \cup {d}
                /\ d.guard = payload_guard(req[h].payload)
                /\ d.guard_id = NoneId
      /\ schedules \subseteq schedules'
      /\ \A h \in Handlers : ListsSchedules(h) =>
           \A d \in schedules :
             (d.guard = Caller(h).name /\ d.guard_id = NoneId) =>
               /\ resp'[h].status = 200
               /\ \E i \in DOMAIN resp'[h].body :
                    /\ resp'[h].body[i].id = Str(d._id)
                    /\ resp'[h].body[i].guard_id = NoneId
                    /\ resp'[h].body[i].guard_id # Str(Caller(h)._id)
    ]_vars

\* a user who registered after the schedule was stored has listed the own
\* schedules and got the schedule stored for the user's name, its guard_id
\* still None
C12_Witness ==
  \E h \in Handlers :
    /\ pc[h] = "done" /\ req[h].op = "get_my_schedules" /\ resp[h].status = 200
    /\ Caller(h) \notin SeedUsers
    /\ \E d \in SeedSchedules :
         /\ d \in schedules /\ d.guard = Caller(h).name /\ d.guard_id = NoneId
         /\ d.created_at <= Caller(h).created_at
         /\ resp[h].body = <<serialize_schedule(d)>>

\* the request of handler h has a guard reference that is not empty once
\* trimmed, and a shift list that is not empty
GuardAndShiftsGiven(h) ==
  /\ payload_guard(req[h].payload) # ""
  /\ Len(payload_shifts(req[h].payload)) > 0

\* C13: an admin's create schedule with a trimmed guard reference and a
\* shift list that are not empty is not rejected: it goes on to its look-ups
\* and its insert, whether or not a user is found, and the insert adds
\* exactly one schedule and answers 200; with an empty trimmed guard
\* reference or an empty shift list it is answered 400 at once and no
\* schedule is added; and schedules are added by such inserts only.
C13_CreateScheduleSucceedsOrRejects ==
  [][ /\ \A h \in Handlers :
           (FirstStep(h) /\ req[h].op = "create_schedule"
              /\ Caller(h).role = "admin") =>
             IF GuardAndShiftsGiven(h)
               THEN pc'[h] \in {"by_email", "insert"}
               ELSE /\ pc'[h] = "done"
                    /\ resp'[h].status = 400
                    /\ schedules' = schedules
      /\ \A h \in Handlers :
           (pc[h] = "by_email" /\ req[h].op = "create_schedule" /\ pc'[h] # "by_email") =>
             pc'[h] = "insert" /\ schedules' = schedules
      /\ \A h \in Handlers : ScheduleInserts(h) =>
           /\ resp'[h].status = 200
           /\ Cardinality(schedules') = Cardinality(schedules) + 1
           /\ \E d \in schedules' \ schedules :
                /\ schedules' = schedules \cup {d}
                /\ resp'[h].body.id = Str(d._id)
                /\ \A e \in schedules : e._id # d._id
      /\ schedules' # schedules =>
           \E h \in Handlers :
             ScheduleInserts(h) /\ GuardAndShiftsGiven(h) /\ Caller(h).role = "admin"
    ]_vars

\* one create schedule was answered 200 with no user found for its guard
\* reference, another with a user found, and each has added one schedule
C13_Witness ==
  \E h, g \in Handlers :
    /\ pc[h] = "done" /\ req[h].op = "create_schedule" /\ resp[h].status = 200
    /\ resp[h].body.guard_id = NoneId
    /\ pc[g] = "done" /\ req[g].op = "create_schedule" /\ resp[g].status = 200
    /\ resp[g].body.guard_id # NoneId
    /\ Cardinality(schedules) = Cardinality(SeedSchedules) + 2

(***************************************************************************)
(* Properties of identity resolution and of the admin's guard look-up.     *)
(***************************************************************************)
ResolvingOps == {"admin_get_for_guard", "create_schedule"}

\* the guard reference as the request gives it
GivenReference(h) ==
  IF req[h].op = "admin_get_for_guard"
    THEN req[h].guard
    ELSE OrText(Get(req[h].payload, "guard", None), "")

\* handler h takes the step that looks the reference up by name: the first
\* step of an admin's look-up, or of an admin's create schedule with shifts
LooksUpByName(h) ==
  /\ FirstStep(h) /\ req[h].op \in ResolvingOps
  /\ Caller(h).role = "admin"
  /\ req[h].op = "create_schedule" => Len(payload_shifts(req[h].payload)) > 0

\* handler h takes the step that looks the reference up by e-mail
LooksUpByEmail(h) ==
  pc[h] = "by_email" /\ req[h].op \in ResolvingOps /\ pc'[h] # "by_email"

\* the step of handler h ends the resolution with a user among found
Found(h, found) ==
  /\ pc'[h] = (IF req[h].op = "admin_get_for_guard" THEN "list" ELSE "insert")
  /\ loc'[h].guard_user \in found

\* the step of handler h ends the resolution with no user, and no error
NotFound(h) ==
  IF req[h].op = "admin_get_for_guard"
    THEN pc'[h] = "done" /\ resp'[h] = Ok(<<>>)
    ELSE pc'[h] = "insert" /\ loc'[h].guard_user = NoDoc

\* the steps of handler h resolve reference r as the algorithm says: a user
\* named r; else, if r has an "@", the user with e-mail lowercase(r); else
\* no user
ResolvesAs(h, r) ==
  /\ LooksUpByName(h) =>
       IF \E u \in users : u.name = r
         THEN Found(h, {u \in users : u.name = r})
       ELSE IF contains_at(r) THEN pc'[h] = "by_email"
       ELSE NotFound(h)
  /\ LooksUpByEmail(h) =>
       IF \E u \in users : u.email = lower(r)
         THEN Found(h, {u \in users : u.email = lower(r)})
         ELSE NotFound(h)

\* C14 (as claimed): the look-ups resolve the reference as the request
\* gives it, and never answer with an error.
C14_Original_ResolvesGivenReference ==
  [][ \A h \in Handlers : req[h].op \in ResolvingOps =>
        ResolvesAs(h, GivenReference(h)) ]_vars

\* C14 (amended): the look-ups resolve the reference trimmed of surrounding
\* whitespace, and never answer with an error; a reference that is empty
\* once trimmed is answered 400 before any look-up, the store unchanged.
C14_ResolvesTrimmedReference ==
  [][ \A h \in Handlers : req[h].op \in ResolvingOps =>
        IF strip(GivenReference(h)) = ""
          THEN LooksUpByName(h) =>
                 /\ pc'[h] = "done" /\ resp'[h].status = 400
                 /\ <<users, availability, shifts, schedules>>' =
                      <<users, availability, shifts, schedules>>
          ELSE ResolvesAs(h, strip(GivenReference(h)))
    ]_vars

\* a look-up for a padded e-mail reference in another case than the stored
\* e-mail has found the user by e-mail, no user having that name
C14_Witness ==
  \E h \in Handlers :
    /\ pc[h] = "list" /\ req[h].op = "admin_get_for_guard"
    /\ req[h].guard # strip(req[h].guard)
    /\ strip(req[h].guard) # lower(strip(req[h].guard))
    /\ ~\E u \in users : u.name = strip(req[h].guard)
    /\ loc[h].guard_user \in users
    /\ loc[h].guard_user.email = lower(strip(req[h].guard))

\* reference r matches no user, by name or by e-mail
Unresolvable(r) ==
  /\ ~\E u \in users : u.name = r
  /\ ~\E u \in users : u.email = lower(r)

\* the step of the admin's guard look-up of handler h that finds that the
\* reference, trimmed, matches no user
LookupFindsNoUser(h) ==
  /\ req[h].op = "admin_get_for_guard"
  /\ Unresolvable(strip(req[h].guard))
  /\ \/ LooksUpByName(h) /\ ~contains_at(strip(req[h].guard))
     \/ LooksUpByEmail(h)

\* the step answers an empty list with success and changes no collection
EmptySuccess(h) ==
  /\ pc'[h] = "done" /\ resp'[h] = Ok(<<>>)
  /\ <<users, availability, shifts, schedules>>' =
       <<users, availability, shifts, schedules>>

\* C15 (as claimed): an admin's availability look-up for a reference that
\* resolves to no user answers an empty list with status 200 and changes
\* nothing in the store.
C15_Original_UnresolvedLookupEmpty ==
  [][ \A h \in Handlers : LookupFindsNoUser(h) => EmptySuccess(h) ]_vars

\* C15 (amended): an admin's availability look-up for a reference that is
\* not blank and resolves to no user answers an empty list with status 200
\* and changes nothing in the store; a blank reference is answered 400.
C15_UnresolvedLookupEmpty ==
  [][ \A h \in Handlers : LookupFindsNoUser(h) =>
        IF strip(req[h].guard) = ""
          THEN pc'[h] = "done" /\ resp'[h].status = 400
          ELSE EmptySuccess(h)
    ]_vars

\* an admin's look-up for an e-mail reference no user has was answered an
\* empty list while an availability record is stored
C15_Witness ==
  \E h \in Handlers :
    /\ pc[h] = "done" /\ req[h].op = "admin_get_for_guard"
    /\ Caller(h).role = "admin"
    /\ contains_at(strip(req[h].guard))
    /\ Unresolvable(strip(req[h].guard))
    /\ resp[h] = Ok(<<>>)
    /\ availability # {}

(***************************************************************************)
(* Properties of the responses.                                            *)
(***************************************************************************)
\* record x has no password digest field
NoDigestField(x) == "password_hash" \notin DOMAIN x

\* no record of list xs has a password digest field
NoDigestFieldInList(xs) == \A i \in DOMAIN xs : NoDigestField(xs[i])

ListOps ==
  {"get_my_availability_for_month", "admin_get_all_for_month",
   "admin_get_for_guard", "get_my_schedules"}
PagedOps == {"get_my_shifts", "admin_list_shifts"}

\* C16: no response of any operation, for a caller of any role, has the
\* password digest field: not the response itself, nor a record in it.
C16_NoDigestInResponses ==
  \A h \in Handlers :
    /\ NoDigestField(resp[h])
    /\ resp[h].status = 200 =>
         IF req[h].op \in ListOps
           THEN /\ NoDigestFieldInList(resp[h].body)
                /\ req[h].op = "get_my_schedules" =>
                     \A i \in DOMAIN resp[h].body :
                       NoDigestFieldInList(resp[h].body[i].shifts)
         ELSE IF req[h].op \in PagedOps
           THEN NoDigestField(resp[h].body)
                  /\ NoDigestFieldInList(resp[h].body.items)
         ELSE IF req[h].op = "login"
           THEN NoDigestField(resp[h].body) /\ NoDigestField(resp[h].body.user)
         ELSE IF req[h].op = "create_schedule"
           THEN NoDigestField(resp[h].body)
                  /\ NoDigestFieldInList(resp[h].body.shifts)
         ELSE NoDigestField(resp[h].body)

\* a login that read the user's digest to verify the password has answered
\* with the token and the user's record
C16_Witness ==
  \E h \in Handlers :
    /\ pc[h] = "done" /\ req[h].op = "login" /\ resp[h].status = 200
    /\ \E u \in users :
         /\ resp[h].body.user.id = Str(u._id)
         /\ verify_password(req[h].password, u.password_hash)

(***************************************************************************)
(* Properties of deleting an availability record.                          *)
(***************************************************************************)
\* the availability records a delete request of handler h names, after the
\* step that takes the request
NamedAvailability(h, coll) ==
  {d \in coll : Str(d._id) = req'[h].availability_id}

\* handler h takes a request to delete an availability record that is stored
DeleteAvailabilityArrives(h) ==
  /\ nreq' # nreq /\ req'[h] # req[h]
  /\ req'[h].op = "delete_availability"
  /\ NamedAvailability(h, availability) # {}

\* C17: deleting a stored availability record succeeds and removes it for
\* the record's owner and for an admin; for any other caller it is answered
\* 403 and the record stays.
C17_DeleteAvailabilityOwnerOrAdmin ==
  [][ \A h \in Handlers : DeleteAvailabilityArrives(h) =>
        LET caller == CHOOSE u \in users :
                        u._id = ObjectId(req'[h].token.claims.sub) IN
        \A d \in NamedAvailability(h, availability) :
          IF caller.role = "admin" \/ d.user_id = Str(caller._id)
            THEN /\ pc'[h] = "done" => resp'[h].status = 200
                 /\ pc'[h] = "done" => d \notin availability'
            ELSE /\ pc'[h] = "done" => resp'[h].status = 403
                 /\ d \in availability'
    ]_vars

(***************************************************************************)
(* Properties of the password change and of login.                         *)
(***************************************************************************)
\* the current password of the request of handler h verifies against the
\* digest stored for user u
SuppliesCurrentPassword(h, u) ==
  /\ req[h].payload.current_password # None
  /\ verify_password(req[h].payload.current_password, u.password_hash)

\* handler h takes the step of update_profile that handles the new password
ChangesPassword(h) ==
  /\ FirstStep(h) /\ req[h].op = "update_profile"
  /\ req[h].payload.new_password # None

\* C18: the stored digest of a user changes only by a step of that user's
\* update profile whose current_password verifies against the digest stored
\* at that step; a password change whose current_password is missing or does
\* not verify against it fails and leaves the users as they are.
C18_DigestChangeNeedsCurrentPassword ==
  [][ /\ \A u \in users : \A v \in users' :
           v._id = u._id /\ v.password_hash # u.password_hash =>
             \E h \in Handlers :
               /\ ChangesPassword(h) /\ Caller(h)._id = u._id
               /\ SuppliesCurrentPassword(h, u)
      /\ \A h \in Handlers :
           ChangesPassword(h) /\ ~SuppliesCurrentPassword(h, Caller(h)) =>
             /\ pc'[h] = "done" /\ resp'[h].status \in {400, 401}
             /\ users' = users
    ]_vars

\* handler h takes the step of login
LoginStep(h) == pc[h] = "start" /\ req[h].op = "login" /\ pc'[h] = "done"

\* the e-mail of the login of handler h is the e-mail of no user
UnknownEmail(h) == Matching(users, "email", lower(req[h].username)) = {}

\* the e-mail of the login of handler h is a user's, the password is not
WrongPassword(h) ==
  /\ ~UnknownEmail(h)
  /\ \A u \in Matching(users, "email", lower(req[h].username)) :
       ~verify_password(req[h].password, u.password_hash)

\* handler h holds the response of a login that was rejected
LoginRejected(h) ==
  pc[h] = "done" /\ req[h].op = "login" /\ resp[h].status # 200

\* C19: a login with an unknown e-mail and a login with a known e-mail and a
\* wrong password are both rejected, with 400 "Invalid credentials", and the
\* response of one differs in nothing from the response of any other
\* rejected login.
C19_LoginRejectionsIndistinguishable ==
  [][ \A h \in Handlers :
        LoginStep(h) /\ (UnknownEmail(h) \/ WrongPassword(h)) =>
          /\ resp'[h].status = 400
          /\ resp'[h].detail = "Invalid credentials"
          /\ \A g \in Handlers : LoginRejected(g) => resp'[h] = resp[g]
    ]_vars

\* one handler holds the rejection of a login with an unknown e-mail, the
\* other the rejection of a login with a user's e-mail and a wrong password
C19_Witness ==
  \E g, h \in Handlers :
    /\ g # h /\ LoginRejected(g) /\ LoginRejected(h)
    /\ UnknownEmail(g)
    /\ WrongPassword(h)
    /\ resp[g] = resp[h]

(***************************************************************************)
(* Properties of the validation of dates and months.                       *)
(***************************************************************************)
MonthOps ==
  {"get_my_availability_for_month", "admin_get_all_for_month",
   "admin_get_for_guard"}

\* the request of handler h carries a date or a month that strptime refuses
CarriesMalformed(h) ==
  \/ /\ req[h].op = "upsert_my_availability"
     /\ ~strptime_Y_m_d(req[h].payload.date)
  \/ /\ req[h].op \in MonthOps
     /\ req[h].month # <<>>
     /\ ~strptime_Y_m_d(req[h].month \o <<"-", "0", "1">>)

\* the caller of handler h may use the operation it asks for
Authorised(h) == req[h].op \in AdminOps => Caller(h).role = "admin"

\* C20: an operation that takes a date or a month answers a malformed value
\* with 400 in its first step after the caller is authenticated, so before
\* any other access to the store, and writes nothing.
C20_MalformedRejectedFirst ==
  [][ \A h \in Handlers :
        /\ FirstStep(h)
        /\ req[h].op \in MonthOps \cup {"upsert_my_availability"}
        /\ Authorised(h)
        /\ CarriesMalformed(h)
        => /\ pc'[h] = "done" /\ resp'[h].status = 400
           /\ <<users, availability, shifts, schedules>>' =
                <<users, availability, shifts, schedules>>
    ]_vars

(***************************************************************************)
(* Properties of the listings.                                             *)
(***************************************************************************)
\* the day a date text names
DayOf(t) ==
  LET rest == AfterYear(t) IN Num(SubSeq(rest, FirstDash(rest) + 1, Len(rest)))

\* date a is not after date b
DateLeq(a, b) ==
  \/ YearOf(a) < YearOf(b)
  \/ YearOf(a) = YearOf(b) /\ MonthOf(a) < MonthOf(b)
  \/ YearOf(a) = YearOf(b) /\ MonthOf(a) = MonthOf(b) /\ DayOf(a) <= DayOf(b)

\* C21: a listing of own availability for a month that passed validation has
\* one entry for each stored record of the caller whose date lies in that
\* month, no entry of another user or of another month, and its entries are
\* in ascending order of date.
C21_ListsExactlyOwnMonth ==
  [][ \A h \in Handlers : ListsMonth(h) =>
        LET body == resp'[h].body
            mine == {d \in availability :
                       /\ d.user_id = Str(Caller(h)._id)
                       /\ InMonth(d.date, req[h].month)} IN
        /\ \A i \in DOMAIN body :
             \E d \in mine : body[i].id = Str(d._id) /\ body[i].date = d.date
        /\ \A d \in mine :
             Cardinality({i \in DOMAIN body : body[i].id = Str(d._id)}) = 1
        /\ \A i, j \in DOMAIN body :
             i < j => DateLeq(body[i].date, body[j].date)
    ]_vars

\* the listing body has one entry for each document of docs, and no other
ListsEachOnce(body, docs) ==
  /\ Len(body) = Cardinality(docs)
  /\ \A d \in docs : \E i \in DOMAIN body : body[i] = serialize_schedule(d)

\* C22 (as claimed): list own schedules returns, once each, exactly the
\* schedules whose guard_id is the caller's id or whose guard text equals the
\* caller's name or the caller's e-mail.
C22_Original_ListsByIdNameEmail ==
  [][ \A h \in Handlers : ListsSchedules(h) =>
        /\ resp'[h].status = 200
        /\ ListsEachOnce(resp'[h].body,
             {d \in schedules : \/ d.guard_id = Str(loc[h].user._id)
                                \/ d.guard = loc[h].user.name
                                \/ d.guard = loc[h].user.email})
    ]_vars

\* C22 (amended): list own schedules returns, once each, exactly the
\* schedules whose guard_id is the caller's id or whose guard text equals the
\* caller's name trimmed of surrounding whitespace or the caller's e-mail in
\* lower case and trimmed, a name or e-mail that is empty matching nothing.
C22_ListsByIdTrimmedNameEmail ==
  [][ \A h \in Handlers : ListsSchedules(h) =>
        LET name == strip(loc[h].user.name)
            email == strip(lower(loc[h].user.email)) IN
        /\ resp'[h].status = 200
        /\ ListsEachOnce(resp'[h].body,
             {d \in schedules : \/ d.guard_id = Str(loc[h].user._id)
                                \/ name # "" /\ d.guard = name
                                \/ email # "" /\ d.guard = email})
    ]_vars

\* a user whose stored name has surrounding whitespace has listed own
\* schedules and got the schedule whose guard text is the name trimmed
C22_Witness ==
  \E h \in Handlers :
    /\ pc[h] = "done" /\ req[h].op = "get_my_schedules" /\ resp[h].status = 200
    /\ Caller(h).name # strip(Caller(h).name)
    /\ Len(resp[h].body) = 1
    /\ resp[h].body[1].guard = strip(Caller(h).name)
    /\ resp[h].body[1].guard_id # Str(Caller(h)._id)

(***************************************************************************)
(* Properties of update_profile's errors.                                  *)
(***************************************************************************)
\* handler h takes the step of update_profile that ends in an error
ProfileErrorEnd(h) ==
  /\ req[h].op = "update_profile"
  /\ pc[h] \in {"body", "email", "write"} /\ pc'[h] = "done"
  /\ resp'[h].status \in {400, 401, 409}

\* the update_one of the new digest of the request of handler h has run: the
\* request asked for a new password and is past its password part
WrotePassword(h) ==
  pc[h] = "email" /\ req[h].payload.new_password # None

\* C23: an update profile that ends in an error has written nothing: the
\* step that ends it leaves the users as they are, and no write of the
\* request's new digest came before it.
C23_ProfileErrorWritesNothing ==
  [][ \A h \in Handlers : ProfileErrorEnd(h) =>
        /\ users' = users
        /\ ~WrotePassword(h)
    ]_vars

(***************************************************************************)
(* Properties of the upsert's read-back.                                   *)
(***************************************************************************)
\* handler h takes the step of the upsert that reads the record back
UpsertReadsBack(h) ==
  pc[h] = "fetch" /\ req[h].op = "upsert_my_availability" /\ pc'[h] = "done"

\* C24: the record an upsert returns has the is_available, start_time,
\* end_time and notes of the request's own payload, also when another upsert
\* for the same user and date has run between its write and its read-back.
C24_ReadBackShowsOwnPayload ==
  [][ \A h \in Handlers : UpsertReadsBack(h) =>
        /\ resp'[h].status = 200
        /\ PayloadOf(resp'[h].body) = PayloadOf(req[h].payload)
    ]_vars

=============================================================================
